---- MODULE Spec2Model ----
(***************************************************************************)
(* The wrapper of src/wrap/wrap.go: main() starts the Kafka producer       *)
(* goroutine (produce), the data socket goroutine (relay), the log socket  *)
(* goroutine (logs), then runs the child (run), closes the object channel  *)
(* and runs the deferred close handles.                                    *)
(*                                                                         *)
(* Every goroutine is a program counter; obj and the done channels are     *)
(* unbuffered Go channels, so a send is a rendezvous of two counters.      *)
(* The child process, the broker and the kernel are the environment: what  *)
(* they do (the lines the child writes, which call returns an error) is    *)
(* chosen by the action in which the program meets it.                     *)
(***************************************************************************)
EXTENDS Integers, Sequences, FiniteSets, TLC

\* ------------------------------------------------------------- bounds
\* most lines the child writes to the data socket in one run
MaxLines == 2
\* most SIGINTs that arrive at the wrapper in one run
MaxSignals == 2

\* ------------------------------------------------------------- inputs
\* a line that holds a JSON array of 70000 bytes: it decodes, and it is
\* longer than the Scanner's buffer may grow (bufio.MaxScanTokenSize, 64 KiB)
LongLine == "[0,0, ... 70000 bytes ... ,0]"

\* the texts a line of the data socket may hold
LineTexts == {"{\"a\":1}", " {\"b\":2}", "{\"a\":", LongLine}

\* the line does not fit the buffer of bufio.NewScanner(c)
TooLong(line) == line = LongLine
\* the exit statuses of the child
ExitStatuses == {0, 3}
\* the result of checksum(cmd.Path)
Digest == "5f2c"

VARIABLES
    proc,       \* the wrapper process: running, exit0, panic, killed (by a signal)
    mpc,        \* main goroutine
    deferred,   \* main's deferred close handles, last deferred first
    startErr,   \* the call whose error main is panicking with: none, checksum,
                \* valid, produce, relay, logs, start
    mtop,       \* the close handle main is inside of, after its <-done
    reported,   \* the close handles that got an error from done and logged it
    cksum,      \* the global cksum
    closed,     \* close(obj) has happened
    child,      \* notstarted, running, exited
    status,     \* the child's exit status (-1 while it has none)
    dconn,      \* the child's data connection: none, open, closed
    written,    \* the lines the child has written to the data connection
    nread,      \* lines the Scanner has returned
    lconn,      \* the child's log connection: none, open, closed
    wpc,        \* run's goroutine: cmd.Wait, obj <- event, done <-
    wev,        \* the Event run's goroutine is sending
    dpc,        \* relay's goroutine
    dcur,       \* the Profile relay's goroutine is sending
    derr,       \* the error relay's goroutine met: none, accept, decode, and
                \* those its Scanner keeps to itself: toolong, read
    lpc,        \* logs' goroutine
    ppc,        \* produce's goroutine: recv, brand (an object received), send
                \* (inside p.SendMessage), done_err, done_nil, end
    perr,       \* json.Marshal or SendMessage has returned an error
    pcur,       \* the object produce's goroutine holds
    enq,        \* every object handed over on obj, in order (history)
    sent,       \* every message SendMessage delivered, in order
    nextId,     \* source of fresh UUIDs
    sigs,       \* SIGINTs that have arrived at the wrapper
    msig,       \* the signal main is relaying
    childSigs,  \* signals delivered to the child by cmd.Process.Signal
    lostSigs    \* signals signal.Notify dropped

mainv == <<mpc, deferred, startErr, mtop, reported, cksum, closed>>
childv == <<child, status, dconn, written, lconn>>
prodv == <<ppc, perr, pcur, enq, sent, nextId>>
sigv == <<sigs, msig, childSigs, lostSigs>>
datav == <<dpc, dcur, derr, nread>>
vars == <<proc, mainv, childv, wpc, wev, datav, lpc, prodv, sigv>>

\* ------------------------------------------------------------- objects
\* An Object is an Event or a Profile. The fields of both structs are kept in
\* one record; a field the struct lacks holds its zero value.
NoObject == [kind |-> "none", CheckSum |-> "", UUID |-> 0, Profile |-> "", Status |-> 0]

\* event(cmd.ProcessState): the Event before branding
event(st) == [kind |-> "Event", CheckSum |-> "", UUID |-> 0, Profile |-> "", Status |-> st]

\* Profile as a bug would have it: the decoded value goes nowhere
ProfileUnset(v) ==
    [kind |-> "Profile", CheckSum |-> "", UUID |-> 0, Profile |-> "", Status |-> 0]

\* var p Profile with p.Profile set by json.Unmarshal
Profile(v) == [kind |-> "Profile", CheckSum |-> "", UUID |-> 0, Profile |-> v, Status |-> 0]

\* json.Unmarshal(line.Bytes(), &p.Profile): the decoded value (Go's %v of it)
\* or an error. Leading white space is not part of the value; a truncated
\* object is "unexpected end of JSON input".
Unmarshal(line) ==
    CASE line = "{\"a\":1}"  -> [err |-> FALSE, v |-> "map[a:1]"]
      [] line = " {\"b\":2}" -> [err |-> FALSE, v |-> "map[b:2]"]
      [] line = LongLine     -> [err |-> FALSE, v |-> "[0 0 ... 0]"]
      [] OTHER               -> [err |-> TRUE,  v |-> ""]

\* brand as a bug would have it: the checksum is not filled in
brandNoSum(o, id, sum) == [o EXCEPT !.UUID = id]

\* brand as a bug would have it: every object gets the same UUID
brandSameId(o, id, sum) == [o EXCEPT !.UUID = 1, !.CheckSum = sum]

\* o.brand(): a fresh UUID and the global checksum
brand(o, id, sum) == [o EXCEPT !.UUID = id, !.CheckSum = sum]

\* o.topic()
topic(o) == IF o.kind = "Event" THEN "EVENT_TOPIC" ELSE "PROF_TOPIC"

\* SendMessage as a bug would have it: the newest message overtakes the others
SendMessageOvertaking(log, o) == <<[topic |-> topic(o), value |-> o]>> \o log

\* p.SendMessage(...) returning nil: the broker has one more message
SendMessage(log, o) == Append(log, [topic |-> topic(o), value |-> o])

\* the object a delivered message carries, as it was before branding
Unbrand(m) == [m.value EXCEPT !.UUID = 0, !.CheckSum = ""]

\* ------------------------------------------------------------- Init
Init ==
    /\ proc = "running"
    /\ mpc = "checksum"
    /\ deferred = <<>>
    /\ startErr = "none"
    /\ mtop = "none"
    /\ reported = {}
    /\ cksum = ""
    /\ closed = FALSE
    /\ child = "notstarted"
    /\ status = -1
    /\ dconn = "none"
    /\ written = <<>>
    /\ nread = 0
    /\ lconn = "none"
    /\ wpc = "none"
    /\ wev = NoObject
    /\ dpc = "none"
    /\ dcur = NoObject
    /\ derr = "none"
    /\ lpc = "none"
    /\ ppc = "none"
    /\ perr = FALSE
    /\ pcur = NoObject
    /\ enq = <<>>
    /\ sent = <<>>
    /\ nextId = 1
    /\ sigs = 0
    /\ msig = FALSE
    /\ childSigs = 0
    /\ lostSigs = 0

\* ------------------------------------------------------------- main
\* check(err) with err != nil, or panic(err) in run: main unwinds through
\* its deferred calls and the process then dies of the panic
Panic(call) ==
    /\ startErr' = call
    /\ mpc' = "defer"

\* cksum = checksum(cmd.Path): the digest of the executable, or log.Panic
\* when the file cannot be opened or read, with cksum not assigned
MainChecksum ==
    /\ proc = "running" /\ mpc = "checksum"
    /\ \/ Panic("checksum") /\ UNCHANGED cksum
       \/ /\ cksum' = Digest
          /\ mpc' = "valid"
          /\ UNCHANGED startErr
    /\ UNCHANGED <<proc, deferred, mtop, reported, closed, childv, wpc, wev, datav, lpc,
                   prodv, sigv>>

\* if !valid(cksum) { log.Print(...) }: valid returns true or false, which
\* changes nothing but the log, or log.Panic when http.Get fails or the
\* status is neither 200 nor 404
MainValid ==
    /\ proc = "running" /\ mpc = "valid"
    /\ \/ Panic("valid")
       \/ mpc' = "produce" /\ UNCHANGED startErr
    /\ UNCHANGED <<proc, deferred, mtop, reported, cksum, closed, childv, wpc, wev,
                   datav, lpc, prodv, sigv>>

\* wprod, err := produce(obj); check(err); defer wprod()
\* produce returns connect()'s error, or starts its goroutine
MainProduce ==
    /\ proc = "running" /\ mpc = "produce"
    /\ \/ Panic("produce") /\ UNCHANGED <<ppc, deferred>>
       \/ /\ ppc' = "recv"
          /\ deferred' = <<"wprod">> \o deferred
          /\ mpc' = "relay"
          /\ UNCHANGED startErr
    /\ UNCHANGED <<proc, mtop, reported, cksum, closed, childv, wpc, wev, datav, lpc,
                   perr, pcur, enq, sent, nextId, sigv>>

\* wrelay, err := relay(obj); check(err); defer wrelay()
\* relay returns net.Listen's error, or starts its goroutine
MainRelay ==
    /\ proc = "running" /\ mpc = "relay"
    /\ \/ Panic("relay") /\ UNCHANGED <<dpc, deferred>>
       \/ /\ dpc' = "accept"
          /\ deferred' = <<"wrelay">> \o deferred
          /\ mpc' = "logs"
          /\ UNCHANGED startErr
    /\ UNCHANGED <<proc, mtop, reported, cksum, closed, childv, wpc, wev, dcur, derr,
                   nread, lpc, prodv, sigv>>

\* MainLogs as a bug would have it: lc is run after the other close handles
MainLogsDeferLast ==
    /\ proc = "running" /\ mpc = "logs"
    /\ \/ Panic("logs") /\ UNCHANGED <<lpc, deferred>>
       \/ /\ lpc' = "accept"
          /\ deferred' = deferred \o <<"lc">>
          /\ mpc' = "start"
          /\ UNCHANGED startErr
    /\ UNCHANGED <<proc, mtop, reported, cksum, closed, childv, wpc, wev, datav, prodv,
                   sigv>>

\* lc, err := logs(logger); check(err); defer lc()
\* logs returns net.Listen's error, or starts its goroutine
MainLogs ==
    /\ proc = "running" /\ mpc = "logs"
    /\ \/ Panic("logs") /\ UNCHANGED <<lpc, deferred>>
       \/ /\ lpc' = "accept"
          /\ deferred' = <<"lc">> \o deferred
          /\ mpc' = "start"
          /\ UNCHANGED startErr
    /\ UNCHANGED <<proc, mtop, reported, cksum, closed, childv, wpc, wev, datav, prodv,
                   sigv>>

\* run: err := cmd.Start(): the child runs, or panic(err)
RunStart ==
    /\ proc = "running" /\ mpc = "start"
    /\ \/ Panic("start") /\ UNCHANGED child
       \/ /\ child' = "running"
          /\ mpc' = "notify"
          /\ UNCHANGED startErr
    /\ UNCHANGED <<proc, deferred, mtop, reported, cksum, closed, status, dconn,
                   written, lconn, wpc, wev, datav, lpc, prodv, sigv>>

\* run: signal.Notify(sig, syscall.SIGINT): from here on a SIGINT is caught
RunNotify ==
    /\ proc = "running" /\ mpc = "notify"
    /\ mpc' = "go"
    /\ UNCHANGED <<proc, deferred, startErr, mtop, reported, cksum, closed, childv,
                   wpc, wev, datav, lpc, prodv, sigv>>

\* run: go func() { cmd.Wait() ... }(), and main reaches the select
RunGo ==
    /\ proc = "running" /\ mpc = "go"
    /\ wpc' = "wait"
    /\ mpc' = "select"
    /\ UNCHANGED <<proc, deferred, startErr, mtop, reported, cksum, closed, childv,
                   wev, datav, lpc, prodv, sigv>>

\* RunDone as a bug would have it: run returns once the child has exited,
\* with the Event still offered on obj
RunDoneBeforeHandoff ==
    /\ proc = "running" /\ mpc = "select" /\ wpc \in {"send_event", "send_done"}
    /\ wpc' = "end"
    /\ mpc' = "close"
    /\ UNCHANGED <<proc, deferred, startErr, mtop, reported, cksum, closed, childv,
                   wev, datav, lpc, prodv, sigv>>

\* run: case <-done: return
RunDone ==
    /\ proc = "running" /\ mpc = "select" /\ wpc = "send_done"
    /\ wpc' = "end"
    /\ mpc' = "close"
    /\ UNCHANGED <<proc, deferred, startErr, mtop, reported, cksum, closed, childv,
                   wev, datav, lpc, prodv, sigv>>

\* signal.Notify(sig, syscall.SIGINT) has been called
Notified ==
    \/ mpc \in {"go", "select", "forward", "close"}
    \/ mpc \in {"defer", "closing"} /\ startErr = "none"

\* A SIGINT arrives at the wrapper. Before signal.Notify the Go runtime's
\* default action ends the process. After it, sig is unbuffered and the signal
\* package does not block sending to it: the signal is handed to run only if
\* run is waiting in the select, and dropped otherwise.
Signal ==
    /\ proc = "running" /\ mpc # "end"
    /\ sigs < MaxSignals
    /\ sigs' = sigs + 1
    /\ IF ~Notified
       THEN proc' = "killed" /\ UNCHANGED <<mpc, msig, lostSigs>>
       ELSE IF mpc = "select"
       THEN mpc' = "forward" /\ msig' = TRUE /\ UNCHANGED <<proc, lostSigs>>
       ELSE lostSigs' = lostSigs + 1 /\ UNCHANGED <<proc, mpc, msig>>
    /\ UNCHANGED <<deferred, startErr, mtop, reported, cksum, closed, childv,
                   wpc, wev, datav, lpc, prodv, childSigs>>

\* RunForward as a bug would have it: the signal ends the select loop
RunForwardReturns ==
    /\ proc = "running" /\ mpc = "forward"
    /\ childSigs' = IF child = "running" THEN childSigs + 1 ELSE childSigs
    /\ msig' = FALSE
    /\ mpc' = "close"
    /\ UNCHANGED <<proc, deferred, startErr, mtop, reported, cksum, closed, childv,
                   wpc, wev, datav, lpc, prodv, sigs, lostSigs>>

\* run: case s := <-sig: cmd.Process.Signal(s), whose error (the child is
\* gone) is dropped
RunForward ==
    /\ proc = "running" /\ mpc = "forward"
    /\ childSigs' = IF child = "running" THEN childSigs + 1 ELSE childSigs
    /\ msig' = FALSE
    /\ mpc' = "select"
    /\ UNCHANGED <<proc, deferred, startErr, mtop, reported, cksum, closed, childv,
                   wpc, wev, datav, lpc, prodv, sigs, lostSigs>>

\* close(obj)
MainClose ==
    /\ proc = "running" /\ mpc = "close"
    /\ closed' = TRUE
    /\ mpc' = "defer"
    /\ UNCHANGED <<proc, deferred, startErr, mtop, reported, cksum, childv, wpc, wev,
                   datav, lpc, prodv, sigv>>

\* the goroutine whose done channel a close handle reads
TaskOf(h) == CASE h = "lc" -> lpc [] h = "wrelay" -> dpc [] OTHER -> ppc

\* the counters at which a goroutine is blocked in done <- ...
DoneSends == {"acc_err", "done_err", "done_nil"}

\* where a goroutine goes on after its done <- ... has been received: after
\* the send in the Accept error branch, which has no return, it falls through
AfterDone(pc) == IF pc = "acc_err" THEN "nilconn" ELSE "end"

\* HandleWait as a bug would have it: the handle does not wait for done
HandleWaitNoBlock ==
    /\ proc = "running" /\ mpc = "defer" /\ deferred # <<>>
    /\ LET h == Head(deferred) IN
        /\ mtop' = h
        /\ reported' = IF TaskOf(h) = "done_nil" THEN reported ELSE reported \cup {h}
        /\ lpc' = IF h = "lc" THEN AfterDone(lpc) ELSE lpc
        /\ dpc' = IF h = "wrelay" THEN AfterDone(dpc) ELSE dpc
        /\ ppc' = IF h = "wprod" THEN AfterDone(ppc) ELSE ppc
    /\ mpc' = "closing"
    /\ UNCHANGED <<proc, deferred, startErr, cksum, closed, childv, wpc, wev, dcur,
                   derr, nread, perr, pcur, enq, sent, nextId, sigv>>

\* a deferred close handle: if err := <-done; err != nil { log.Print(err) }
HandleWait ==
    /\ proc = "running" /\ mpc = "defer" /\ deferred # <<>>
    /\ LET h == Head(deferred) IN
        /\ TaskOf(h) \in DoneSends
        /\ mtop' = h
        /\ reported' = IF TaskOf(h) = "done_nil" THEN reported ELSE reported \cup {h}
        /\ lpc' = IF h = "lc" THEN AfterDone(lpc) ELSE lpc
        /\ dpc' = IF h = "wrelay" THEN AfterDone(dpc) ELSE dpc
        /\ ppc' = IF h = "wprod" THEN AfterDone(ppc) ELSE ppc
    /\ mpc' = "closing"
    /\ UNCHANGED <<proc, deferred, startErr, cksum, closed, childv, wpc, wev, dcur,
                   derr, nread, perr, pcur, enq, sent, nextId, sigv>>

\* a deferred close handle: l.Close(), s.Close(), p.Close(), and its return
HandleClose ==
    /\ proc = "running" /\ mpc = "closing"
    /\ deferred' = Tail(deferred)
    /\ mtop' = "none"
    /\ mpc' = "defer"
    /\ UNCHANGED <<proc, startErr, reported, cksum, closed, childv, wpc, wev, datav,
                   lpc, prodv, sigv>>

\* main returns, or the panic reaches the top of main's stack: the process
\* ends and every goroutine with it
MainExit ==
    /\ proc = "running" /\ mpc = "defer" /\ deferred = <<>>
    /\ proc' = IF startErr = "none" THEN "exit0" ELSE "panic"
    /\ mpc' = "end"
    /\ UNCHANGED <<deferred, startErr, mtop, reported, cksum, closed, childv, wpc, wev,
                   datav, lpc, prodv, sigv>>

\* ------------------------------------------------------------- obj
\* the goroutines that send on obj
Senders == {"run", "relay"}

\* the sender is blocked in obj <- ...
Sending(s) == IF s = "run" THEN wpc = "send_event" ELSE dpc = "send_obj"

\* the object it is sending
Offered(s) == IF s = "run" THEN wev ELSE dcur

\* obj <- o meets o := range obj: the object passes from the sender to
\* produce's goroutine. From run's goroutine it is obj <- event(...), from
\* relay's goroutine obj <- &p.
Handoff(s) ==
    /\ proc = "running" /\ ~closed
    /\ Sending(s) /\ ppc = "recv"
    /\ pcur' = Offered(s)
    /\ enq' = Append(enq, Offered(s))
    /\ ppc' = "brand"
    /\ wpc' = IF s = "run" THEN "send_done" ELSE wpc
    /\ wev' = IF s = "run" THEN NoObject ELSE wev
    /\ dpc' = IF s = "relay" THEN "scan" ELSE dpc
    /\ dcur' = IF s = "relay" THEN NoObject ELSE dcur
    /\ UNCHANGED <<derr, nread>>
    /\ UNCHANGED <<proc, mainv, childv, lpc, perr, sent, nextId, sigv>>

\* obj <- ... on the closed channel: "send on closed channel", a panic in a
\* goroutine, which ends the process
SendOnClosed(s) ==
    /\ proc = "running" /\ closed
    /\ Sending(s)
    /\ proc' = "panic"
    /\ UNCHANGED <<mainv, childv, wpc, wev, datav, lpc, prodv, sigv>>

\* ------------------------------------------------------------- run's goroutine
\* WaitChild as a bug would have it: the Event is built without cmd.Wait()
WaitChildNoWait ==
    /\ proc = "running" /\ wpc = "wait"
    /\ wev' = event(status)
    /\ wpc' = "send_event"
    /\ UNCHANGED <<proc, mainv, childv, datav, lpc, prodv, sigv>>

\* cmd.Wait() returns; event(cmd.ProcessState) is built
WaitChild ==
    /\ proc = "running" /\ wpc = "wait" /\ child = "exited"
    /\ wev' = event(status)
    /\ wpc' = "send_event"
    /\ UNCHANGED <<proc, mainv, childv, datav, lpc, prodv, sigv>>

\* ------------------------------------------------------------- produce's goroutine
\* the loop body for one object, up to the call of p.SendMessage: o.brand(),
\* then json.Marshal(o) returns the bytes, or an error: done <- err and return
ProduceBrand ==
    /\ proc = "running" /\ ppc = "brand"
    /\ pcur' = brand(pcur, nextId, cksum)
    /\ nextId' = nextId + 1
    /\ \/ ppc' = "send" /\ UNCHANGED perr
       \/ ppc' = "done_err" /\ perr' = TRUE
    /\ UNCHANGED <<proc, mainv, childv, wpc, wev, datav, lpc, enq, sent, sigv>>

\* ProduceSend as a bug would have it: the error branch does not return
ProduceSendNoReturn ==
    /\ proc = "running" /\ ppc = "send"
    /\ \/ ppc' = "recv" /\ pcur' = NoObject /\ sent' = SendMessage(sent, pcur)
          /\ UNCHANGED perr
       \/ ppc' = "recv" /\ pcur' = NoObject /\ perr' = TRUE
          /\ UNCHANGED sent
    /\ UNCHANGED <<proc, mainv, childv, wpc, wev, datav, lpc, enq, nextId, sigv>>

\* p.SendMessage returns, after the wait for the broker: the message is
\* delivered and the loop goes on, or an error: done <- err and return, and
\* the message is not delivered
ProduceSend ==
    /\ proc = "running" /\ ppc = "send"
    /\ \/ ppc' = "recv" /\ pcur' = NoObject /\ sent' = SendMessage(sent, pcur)
          /\ UNCHANGED perr
       \/ ppc' = "done_err" /\ perr' = TRUE
          /\ UNCHANGED <<pcur, sent>>
    /\ UNCHANGED <<proc, mainv, childv, wpc, wev, datav, lpc, enq, nextId, sigv>>

\* ProduceEnd as a bug would have it: the loop ends as soon as obj is closed,
\* with the object in hand undelivered
ProduceEndAbandons ==
    /\ proc = "running" /\ ppc \in {"recv", "brand", "send"} /\ closed
    /\ ppc' = "done_nil"
    /\ pcur' = NoObject
    /\ UNCHANGED <<proc, mainv, childv, wpc, wev, datav, lpc, perr, enq, sent, nextId,
                   sigv>>

\* range obj ends on the closed channel: done <- nil
ProduceEnd ==
    /\ proc = "running" /\ ppc = "recv" /\ closed
    /\ ppc' = "done_nil"
    /\ UNCHANGED <<proc, mainv, childv, wpc, wev, datav, lpc, perr, pcur, enq, sent,
                   nextId, sigv>>

\* ------------------------------------------------------------- relay's goroutine
\* c, err := s.Accept() returns the child's connection
DataAcceptConn ==
    /\ proc = "running" /\ dpc = "accept"
    /\ dconn # "none"
    /\ dpc' = "scan"
    /\ UNCHANGED <<proc, mainv, childv, wpc, wev, dcur, derr, nread, lpc, prodv, sigv>>

\* c, err := s.Accept() returns an error: done <- err
DataAcceptErr ==
    /\ proc = "running" /\ dpc = "accept"
    /\ dpc' = "acc_err"
    /\ derr' = "accept"
    /\ UNCHANGED <<proc, mainv, childv, wpc, wev, dcur, nread, lpc, prodv, sigv>>

\* DataLine as a bug would have it: after a decoding error the loop goes on
DataLineNoReturn ==
    /\ proc = "running" /\ dpc = "scan"
    /\ nread < Len(written) /\ ~TooLong(written[nread + 1])
    /\ nread' = nread + 1
    /\ LET r == Unmarshal(written[nread + 1]) IN
        IF r.err
        THEN dpc' = "scan" /\ derr' = "decode" /\ UNCHANGED dcur
        ELSE dpc' = "send_obj" /\ dcur' = Profile(r.v) /\ UNCHANGED derr
    /\ UNCHANGED <<proc, mainv, childv, wpc, wev, lpc, prodv, sigv>>

\* line.Scan() returns a line: json.Unmarshal, then obj <- &p, or done <- err
\* and return
DataLine ==
    /\ proc = "running" /\ dpc = "scan"
    /\ nread < Len(written) /\ ~TooLong(written[nread + 1])
    /\ nread' = nread + 1
    /\ LET r == Unmarshal(written[nread + 1]) IN
        IF r.err
        THEN dpc' = "done_err" /\ derr' = "decode" /\ UNCHANGED dcur
        ELSE dpc' = "send_obj" /\ dcur' = Profile(r.v) /\ UNCHANGED derr
    /\ UNCHANGED <<proc, mainv, childv, wpc, wev, lpc, prodv, sigv>>

\* line.Scan() returns false because the next line does not fit its buffer
\* (bufio.ErrTooLong, which stays in the Scanner: line.Err() is never read):
\* the loop ends as at EOF, done <- nil
DataTooLong ==
    /\ proc = "running" /\ dpc = "scan"
    /\ nread < Len(written) /\ TooLong(written[nread + 1])
    /\ dpc' = "done_nil"
    /\ derr' = "toolong"
    /\ UNCHANGED <<proc, mainv, childv, wpc, wev, dcur, nread, lpc, prodv, sigv>>

\* line.Scan() returns false because c.Read returned an error other than EOF,
\* after the lines already received: the loop ends as at EOF, done <- nil
DataReadErr ==
    /\ proc = "running" /\ dpc = "scan"
    /\ nread = Len(written) /\ dconn = "open"
    /\ dpc' = "done_nil"
    /\ derr' = "read"
    /\ UNCHANGED <<proc, mainv, childv, wpc, wev, dcur, nread, lpc, prodv, sigv>>

\* line.Scan() returns false at EOF: done <- nil
DataEOF ==
    /\ proc = "running" /\ dpc = "scan"
    /\ nread = Len(written) /\ dconn = "closed"
    /\ dpc' = "done_nil"
    /\ UNCHANGED <<proc, mainv, childv, wpc, wev, dcur, derr, nread, lpc, prodv, sigv>>

\* after done <- err of the failed Accept: bufio.NewScanner(c) and line.Scan()
\* with c == nil, a nil dereference
DataNilConn ==
    /\ proc = "running" /\ dpc = "nilconn"
    /\ proc' = "panic"
    /\ UNCHANGED <<mainv, childv, wpc, wev, datav, lpc, prodv, sigv>>

\* ------------------------------------------------------------- logs' goroutine
\* c, err := l.Accept() returns the child's connection
LogAcceptConn ==
    /\ proc = "running" /\ lpc = "accept"
    /\ lconn # "none"
    /\ lpc' = "read"
    /\ UNCHANGED <<proc, mainv, childv, wpc, wev, datav, prodv, sigv>>

\* c, err := l.Accept() returns an error: done <- err
LogAcceptErr ==
    /\ proc = "running" /\ lpc = "accept"
    /\ lpc' = "acc_err"
    /\ UNCHANGED <<proc, mainv, childv, wpc, wev, datav, prodv, sigv>>

\* ioutil.ReadAll(t) returns nil at EOF, the child's connection being
\* closed: done <- err with err == nil
LogEOF ==
    /\ proc = "running" /\ lpc = "read"
    /\ lconn = "closed"
    /\ lpc' = "done_nil"
    /\ UNCHANGED <<proc, mainv, childv, wpc, wev, datav, prodv, sigv>>

\* ioutil.ReadAll(t) returns nil with the connection open: the child has
\* sent an empty record, and a read of 0 bytes is EOF to Go's net package
LogEmptyRecord ==
    /\ proc = "running" /\ lpc = "read"
    /\ lconn = "open"
    /\ lpc' = "done_nil"
    /\ UNCHANGED <<proc, mainv, childv, wpc, wev, datav, prodv, sigv>>

\* ioutil.ReadAll(t) returns an error, of the read from the connection or of
\* the write to logger: done <- err with err != nil
LogReadErr ==
    /\ proc = "running" /\ lpc = "read"
    /\ lpc' = "done_err"
    /\ UNCHANGED <<proc, mainv, childv, wpc, wev, datav, prodv, sigv>>

\* after done <- err of the failed Accept: io.TeeReader(c, logger) and ReadAll
\* with c == nil, a nil dereference
LogNilConn ==
    /\ proc = "running" /\ lpc = "nilconn"
    /\ proc' = "panic"
    /\ UNCHANGED <<mainv, childv, wpc, wev, datav, lpc, prodv, sigv>>

\* ------------------------------------------------------------- the child
\* the child connects to data-<pid>
ChildConnectData ==
    /\ child = "running" /\ dconn = "none"
    /\ dconn' = "open"
    /\ UNCHANGED <<proc, mainv, child, status, written, lconn, wpc, wev, datav, lpc,
                   prodv, sigv>>

\* the child writes a line and a newline
ChildWrite ==
    /\ child = "running" /\ dconn = "open"
    /\ Len(written) < MaxLines
    /\ \E line \in LineTexts : written' = Append(written, line)
    /\ UNCHANGED <<proc, mainv, child, status, dconn, lconn, wpc, wev, datav, lpc,
                   prodv, sigv>>

\* the child closes its data connection
ChildCloseData ==
    /\ child = "running" /\ dconn = "open"
    /\ dconn' = "closed"
    /\ UNCHANGED <<proc, mainv, child, status, written, lconn, wpc, wev, datav, lpc,
                   prodv, sigv>>

\* the child connects to log-<pid>
ChildConnectLog ==
    /\ child = "running" /\ lconn = "none"
    /\ lconn' = "open"
    /\ UNCHANGED <<proc, mainv, child, status, dconn, written, wpc, wev, datav, lpc,
                   prodv, sigv>>

\* the child closes its log connection
ChildCloseLog ==
    /\ child = "running" /\ lconn = "open"
    /\ lconn' = "closed"
    /\ UNCHANGED <<proc, mainv, child, status, dconn, written, wpc, wev, datav, lpc,
                   prodv, sigv>>

\* the child terminates; the kernel closes the connections it still holds
ChildExit ==
    /\ child = "running"
    /\ child' = "exited"
    /\ \E st \in ExitStatuses : status' = st
    /\ dconn' = IF dconn = "open" THEN "closed" ELSE dconn
    /\ lconn' = IF lconn = "open" THEN "closed" ELSE lconn
    /\ UNCHANGED <<proc, mainv, written, wpc, wev, datav, lpc, prodv, sigv>>

\* ------------------------------------------------------------- specification
Main ==
    \/ MainChecksum \/ MainValid \/ MainProduce \/ MainRelay \/ MainLogs
    \/ RunStart \/ RunNotify \/ RunGo \/ RunDone \/ RunForward
    \/ MainClose \/ HandleWait \/ HandleClose \/ MainExit

Goroutines ==
    \/ \E s \in Senders : Handoff(s)
    \/ \E s \in Senders : SendOnClosed(s)
    \/ WaitChild
    \/ ProduceBrand \/ ProduceSend \/ ProduceEnd
    \/ DataAcceptConn \/ DataLine \/ DataTooLong \/ DataEOF \/ DataNilConn
    \/ LogAcceptConn \/ LogEOF \/ LogNilConn

AcceptErrors == DataAcceptErr \/ LogAcceptErr

ReadErrors == DataReadErr \/ LogReadErr \/ LogEmptyRecord

Child ==
    \/ ChildConnectData \/ ChildWrite \/ ChildCloseData
    \/ ChildConnectLog \/ ChildCloseLog \/ ChildExit

Next == Main \/ Goroutines \/ AcceptErrors \/ ReadErrors \/ Child \/ Signal

Spec == Init /\ [][Next]_vars

\* The steps that are bound to happen once they can: the Go scheduler runs
\* every goroutine that can take a step, a blocked channel operation
\* completes once its partner is ready, and the child terminates. Nothing
\* makes an Accept or a read fail, a signal arrive, or the child connect,
\* write or close.
Progress == Main \/ Goroutines \/ ChildExit

Fairness ==
    /\ WF_vars(Main)
    /\ \A s \in Senders : WF_vars(Handoff(s)) /\ WF_vars(SendOnClosed(s))
    /\ WF_vars(WaitChild)
    /\ WF_vars(ProduceBrand) /\ WF_vars(ProduceSend) /\ WF_vars(ProduceEnd)
    /\ WF_vars(DataAcceptConn) /\ WF_vars(DataLine) /\ WF_vars(DataTooLong)
    /\ WF_vars(DataEOF)
    /\ WF_vars(DataNilConn)
    /\ WF_vars(LogAcceptConn) /\ WF_vars(LogEOF) /\ WF_vars(LogNilConn)
    /\ WF_vars(ChildExit)

FairSpec == Spec /\ Fairness

\* ------------------------------------------------------------- vocabulary of the claims
IsPrefix(a, b) == Len(a) <= Len(b) /\ SubSeq(b, 1, Len(a)) = a

IsProfile(o) == o.kind = "Profile"
IsEvent(o) == o.kind = "Event"

\* the objects the broker has, in order, with the branding taken off
Delivered == [i \in 1 .. Len(sent) |-> Unbrand(sent[i])]

\* the payloads of the Profiles of a sequence of objects, in order
Payloads(q) ==
    LET ps == SelectSeq(q, IsProfile) IN [i \in 1 .. Len(ps) |-> ps[i].Profile]

\* the decoded values of a sequence of lines
DecodeAll(ls) == [i \in 1 .. Len(ls) |-> Unmarshal(ls[i]).v]

\* the number of Events handed over on obj
EventCount == Len(SelectSeq(enq, IsEvent))

\* a close handle that was deferred has returned
Returned(h) ==
    /\ TaskOf(h) # "none"
    /\ \A i \in DOMAIN deferred : deferred[i] # h

\* run has returned to main
RunReturned == startErr = "none" /\ mpc \in {"close", "defer", "closing", "end"}

\* logs' Accept has failed
LogAcceptFailed == lpc \in {"acc_err", "nilconn"}

\* logs' ReadAll has returned an error
LogReadFailed == lpc = "done_err" \/ (lpc = "end" /\ "lc" \in reported)

\* a SIGINT has ended the wrapper
Killed == proc = "killed"

\* ------------------------------------------------------------- C1
\* C1: the messages the broker has are, in order, the objects handed over on
\* obj: never one out of order, twice, or one that was not enqueued; and
\* until a Marshal or send fails every enqueued object but the one produce's
\* goroutine holds has been delivered.
C1_DeliveryOrder ==
    /\ IsPrefix(Delivered, enq)
    /\ ~perr => enq = Delivered \o
                    (IF ppc \in {"brand", "send"}
                     THEN <<Unbrand([value |-> pcur])>> ELSE <<>>)

\* a Profile, the Event and a second Profile have been delivered, in that order
C1_Witness ==
    /\ Len(sent) = 3
    /\ IsProfile(sent[1].value) /\ IsEvent(sent[2].value) /\ IsProfile(sent[3].value)
    /\ sent[1].value.Profile # sent[3].value.Profile

\* ------------------------------------------------------------- C2
\* C2: once obj is closed no goroutine is sending on it.
C2_NoSendAfterClose == closed => \A s \in Senders : ~Sending(s)

\* ------------------------------------------------------------- C3
\* the child wrote two valid lines, its connection is closed, it exited with
\* status 0, and no Marshal or send has failed
C3_Scenario ==
    /\ written = <<"{\"a\":1}", " {\"b\":2}">>
    /\ dconn = "closed"
    /\ child = "exited" /\ status = 0
    /\ ~perr

C3_Expected == <<Profile("map[a:1]"), Profile("map[b:2]"), event(0)>>

\* C3: in that scenario the broker receives the two Profiles in line order and
\* then the Event, and nothing else: what it has is always the beginning of
\* that sequence, and all of it once main has returned.
C3_TwoProfilesThenEvent ==
    C3_Scenario =>
        /\ IsPrefix(Delivered, C3_Expected)
        /\ proc = "exit0" => Delivered = C3_Expected

\* ------------------------------------------------------------- C4
\* main has closed obj and is at its deferred close handles
ShutdownReached == startErr = "none" /\ mpc \in {"defer", "closing", "end"}

\* C4: once a Marshal or send has failed and the child has exited, run
\* returns and main closes obj and gets to its close handles, unless a
\* SIGINT ends the wrapper first; and wprod, when it has run, has logged the
\* error.
C4_RelayFailureIsolated ==
    /\ (perr /\ child = "exited") ~> (ShutdownReached \/ Killed)
    /\ []((perr /\ Returned("wprod")) => "wprod" \in reported)

\* ------------------------------------------------------------- C5
\* C5: when produce, relay or logs returns an error the child is never
\* started and the process terminates.
C5_StartupErrorAborts ==
    /\ [](startErr \in {"produce", "relay", "logs"} => child = "notstarted")
    /\ (startErr \in {"produce", "relay", "logs"}) ~> (proc # "running")

\* ------------------------------------------------------------- C6
\* C6: when wprod has returned and no Marshal or send failed, obj was closed
\* and every object handed over on it has been delivered.
C6_NoTruncation ==
    (Returned("wprod") /\ ~perr) => closed /\ Delivered = enq

\* wprod has returned after two Profiles and the Event were delivered
C6_Witness ==
    /\ Returned("wprod") /\ ~perr
    /\ Len(enq) = 3 /\ Delivered = enq

\* ------------------------------------------------------------- C7
\* C7: never two Events are handed over on obj; run's goroutine builds and
\* sends one only after the child has terminated; and never zero: once the
\* child has terminated the Event is handed over on obj, unless a SIGINT has
\* ended the wrapper before signal.Notify.
C7_OneEventAfterExit ==
    /\ [](EventCount <= 1)
    /\ []((EventCount = 1 \/ wpc = "send_event") => child = "exited")
    /\ (child = "exited") ~> (EventCount = 1 \/ Killed)

\* run has returned with the Event handed over between two Profiles
C7_Witness ==
    /\ mpc = "close"
    /\ Len(enq) = 3 /\ IsEvent(enq[2])
    /\ EventCount = 1

\* ------------------------------------------------------------- C8
\* C8: while no line failed to decode and no Accept or read failed, the
\* Profiles handed over on obj (and the one relay's goroutine is sending) are
\* one per line read, in line order, each with the decoded value of its line;
\* and relay's goroutine leaves its loop only at EOF, with every line the
\* child wrote read.
C8_OneProfilePerLine ==
    derr \in {"none", "toolong"} =>
        /\ Payloads(enq) \o (IF dpc = "send_obj" THEN <<dcur.Profile>> ELSE <<>>)
              = DecodeAll(SubSeq(written, 1, nread))
        /\ dpc \in {"done_nil", "end"} => dconn = "closed" /\ nread = Len(written)

\* relay's goroutine has reached EOF after two different valid lines
C8_Witness ==
    /\ derr = "none" /\ dpc = "done_nil"
    /\ Len(written) = 2 /\ written[1] # written[2]
    /\ Payloads(enq) = <<"map[b:2]", "map[a:1]">>

\* ------------------------------------------------------------- C9
\* the Profiles of the lines before the one that failed to decode have been
\* delivered, and the Event too
C9_AllDelivered ==
    /\ Payloads(Delivered) = DecodeAll(SubSeq(written, 1, nread - 1))
    /\ \E i \in DOMAIN sent : IsEvent(sent[i].value)

\* C9: after a line failed to decode, relay's goroutine is at its done <- err
\* or has returned and the Profiles handed over on obj are those of the lines
\* before that line and no more; and the others go on: unless a Marshal, a
\* send or logs' Accept fails or a SIGINT ends the wrapper, the run is never
\* left with nothing to do before those Profiles and the Event have been
\* delivered.
C9_DecodeErrorStopsIntakeOnly ==
    derr = "decode" =>
        /\ dpc \in {"done_err", "end"}
        /\ Unmarshal(written[nread]).err
        /\ Payloads(enq) = DecodeAll(SubSeq(written, 1, nread - 1))
        /\ \/ perr \/ LogAcceptFailed \/ Killed
           \/ C9_AllDelivered
           \/ ENABLED Progress

\* the second line failed to decode, and the Profile of the first and the
\* Event have been delivered with nothing left to do
C9_Witness ==
    /\ derr = "decode" /\ nread = 2
    /\ Payloads(Delivered) = <<"map[a:1]">>
    /\ C9_AllDelivered
    /\ ~ENABLED Progress

\* ------------------------------------------------------------- C10
\* C10: once a Marshal or send has failed, produce's goroutine is at its
\* done <- err or has returned, and from then on no object is taken from obj,
\* none is branded and the messages the broker has stay as they are.
C10_NoDrainAfterFailure ==
    [][perr => /\ ppc \in {"done_err", "end"}
               /\ enq' = enq /\ sent' = sent /\ nextId' = nextId]_vars

\* a send failed after a delivery, with an object still offered on obj
C10_Witness ==
    /\ perr /\ Len(sent) >= 1
    /\ \E s \in Senders : Sending(s)

\* ------------------------------------------------------------- C11
\* C11: a SIGINT that arrives at the wrapper while the child is running is
\* not dropped: it is handed to run's select, also when run is still relaying
\* the signal before it.
C11_NoSignalLost ==
    [][(sigs' = sigs + 1 /\ child = "running") => lostSigs' = lostSigs]_vars

\* ------------------------------------------------------------- C12
\* C12: while the child is running run has not returned, obj is not closed
\* and the wrapper is alive, whatever number of signals has arrived: main is
\* inside run.
C12_NoReturnWhileChildAlive ==
    child = "running" =>
        /\ proc = "running"
        /\ mpc \in {"notify", "go", "select", "forward"}
        /\ ~RunReturned
        /\ ~closed

\* two signals have arrived and one was relayed to the running child, and
\* run is back in its select
C12_Witness ==
    /\ child = "running" /\ mpc = "select"
    /\ sigs >= 2 /\ childSigs >= 1

\* ------------------------------------------------------------- C13
\* C13: cksum is assigned once, by main, before produce, relay, logs and run
\* start their goroutines, and keeps the digest of the executable from then
\* on; every message the broker has carries that digest as its checksum.
C13_OneChecksum ==
    /\ cksum = IF mpc = "checksum" \/ startErr = "checksum" THEN "" ELSE Digest
    /\ cksum = "" => ppc = "none" /\ dpc = "none" /\ lpc = "none" /\ wpc = "none"
    /\ \A i \in DOMAIN sent : sent[i].value.CheckSum = Digest

\* main has returned with a Profile and the Event delivered, both with the
\* digest
C13_Witness ==
    /\ proc = "exit0"
    /\ \E i, j \in DOMAIN sent :
          /\ IsProfile(sent[i].value) /\ IsEvent(sent[j].value)
          /\ sent[i].value.CheckSum = Digest /\ sent[j].value.CheckSum = Digest

\* ------------------------------------------------------------- C14
\* C14: an object has no UUID until produce's goroutine has taken it from
\* obj; each object taken is branded once, with a UUID no object had before,
\* which it carries while p.SendMessage waits; so no two messages the broker
\* has carry the same UUID.
C14_FreshIdentifiers ==
    /\ \A i \in DOMAIN enq : enq[i].UUID = 0
    /\ nextId - 1 = Len(enq) - (IF ppc = "brand" THEN 1 ELSE 0)
    /\ ppc = "brand" => pcur.UUID = 0
    /\ ppc = "send" =>
          /\ pcur.UUID = nextId - 1
          /\ \A i \in DOMAIN sent : sent[i].value.UUID # pcur.UUID
    /\ \A i \in DOMAIN sent : sent[i].value.UUID \in 1 .. nextId - 1
    /\ \A i, j \in DOMAIN sent : i # j => sent[i].value.UUID # sent[j].value.UUID

\* three messages have been delivered, with three UUIDs
C14_Witness ==
    /\ Len(sent) = 3
    /\ Cardinality({sent[i].value.UUID : i \in DOMAIN sent}) = 3

\* ------------------------------------------------------------- C15
\* the close handles in the order main runs them when it returns
HandleOrder == <<"lc", "wrelay", "wprod">>

IsSuffix(a, b) ==
    Len(a) <= Len(b) /\ SubSeq(b, Len(b) - Len(a) + 1, Len(b)) = a

\* C15: when no start-up call failed, obj is closed only after run has
\* returned; while run runs the three close handles are all pending; main is
\* at a close handle only with obj closed; and the handles still to return
\* are always an end of lc, wrelay, wprod, so that a handle is run only
\* after those before it have returned.
C15_ShutdownOrder ==
    startErr = "none" =>
        /\ closed => RunReturned /\ wpc = "end"
        /\ mpc \in {"select", "forward", "close"} => deferred = HandleOrder
        /\ mpc \in {"defer", "closing", "end"} =>
              closed /\ IsSuffix(deferred, HandleOrder)
        /\ mpc = "closing" => mtop = Head(deferred)

\* lc and wrelay have returned and main is inside wprod, with no error
\* reported
C15_Witness ==
    /\ startErr = "none" /\ mpc = "closing"
    /\ mtop = "wprod" /\ deferred = <<"wprod">>
    /\ reported = {}

\* ------------------------------------------------------------- C16
\* C16: when the close handle of logs or of relay has returned, the
\* goroutine of that listener has returned too (stated for the runs in which
\* no start-up call failed).
C16_HandleAfterTask ==
    startErr = "none" =>
        \A h \in {"lc", "wrelay"} : Returned(h) => TaskOf(h) = "end"

\* ------------------------------------------------------------- C17
\* the child connected to both sockets, wrote only lines that decode and
\* fit the Scanner's buffer, and has exited with both connections closed
C17_Scenario ==
    /\ child = "exited"
    /\ dconn = "closed" /\ lconn = "closed"
    /\ \A i \in DOMAIN written : ~Unmarshal(written[i]).err /\ ~TooLong(written[i])

\* a Marshal, a send, an Accept or a read has failed, or a SIGINT has ended
\* the wrapper
C17_Fault ==
    \/ perr \/ derr \in {"accept", "read"}
    \/ LogAcceptFailed \/ LogReadFailed
    \/ Killed

\* main has returned with no error logged by a close handle, and the broker
\* has a Profile for every line the child wrote, in line order, and the Event
C17_Completed ==
    /\ proc = "exit0" /\ reported = {}
    /\ Payloads(Delivered) = DecodeAll(written)
    /\ \E i \in DOMAIN sent : IsEvent(sent[i].value)

\* C17: from the scenario, if no Marshal, send, Accept or read fails and no
\* SIGINT ends the wrapper, the run comes to its normal end with every line
\* and the Event delivered.
C17_NormalCompletion == C17_Scenario ~> (C17_Completed \/ C17_Fault)

\* ------------------------------------------------------------- C18
\* C18: whenever obj is closed the Event has been handed over on it, once,
\* and taken by produce's goroutine: the broker has it, or that goroutine
\* holds it (to send it, or after the Marshal or send of it failed).
C18_EventBeforeClose ==
    closed =>
        /\ EventCount = 1
        /\ \/ \E i \in DOMAIN sent : IsEvent(sent[i].value)
           \/ ppc \in {"brand", "send", "done_err", "end"} /\ IsEvent(pcur)

\* obj is closed while produce's goroutine holds the Event it has not sent yet
C18_Witness ==
    /\ closed
    /\ ppc = "brand" /\ IsEvent(pcur)
    /\ \A i \in DOMAIN sent : ~IsEvent(sent[i].value)

\* ------------------------------------------------------------- C19
\* C19: when the child has exited without connecting to the data socket
\* and Accept has not failed, relay's goroutine is in Accept, wrelay has not
\* returned and main has not returned; the same for the log socket, logs'
\* goroutine and lc.
C19_NoClientNoShutdown ==
    /\ (child = "exited" /\ dconn = "none" /\ derr # "accept") =>
          dpc = "accept" /\ ~Returned("wrelay") /\ proc # "exit0"
    /\ (child = "exited" /\ lconn = "none" /\ ~LogAcceptFailed) =>
          lpc = "accept" /\ ~Returned("lc") /\ proc # "exit0"

\* the child used the log socket only and has exited: lc has returned, main
\* is in wrelay, relay's goroutine is in Accept, and no step is left to take
C19_Witness ==
    /\ child = "exited" /\ dconn = "none" /\ derr = "none"
    /\ Returned("lc") /\ mpc = "defer" /\ Head(deferred) = "wrelay"
    /\ dpc = "accept"
    /\ ~ENABLED Progress

\* ------------------------------------------------------------- C20
\* C20: when the done <- ... of produce's, relay's or logs' goroutine has
\* been received, that goroutine has returned: it takes no further step.
C20_DoneOnceThenStop ==
    [][/\ (ppc \in DoneSends /\ ppc' # ppc) => ppc' = "end"
       /\ (dpc \in DoneSends /\ dpc' # dpc) => dpc' = "end"
       /\ (lpc \in DoneSends /\ lpc' # lpc) => lpc' = "end"]_vars

====
